---- MODULE Spec2Model ----
(***************************************************************************)
(* GitHubAnalyzer (src/github-api.py, the terminal version, and            *)
(* src/github_analyzer_app.py, the dashboard version): a rate-aware,       *)
(* paginated crawl of one user's repositories, folded into tallies.        *)
(* One analysis is a chain of _make_request calls; every action below is   *)
(* one call of _make_request together with the code of its caller up to    *)
(* the next call.                                                          *)
(*                                                                         *)
(* PokemonAPI (src/poke_training.py) and PokemonListFetcher                *)
(* (src/poke_test.py): two programs of their own that space their requests *)
(* by a second, each with a specification of its own at the end.           *)
(***************************************************************************)
EXTENDS Integers, Sequences, FiniteSets, TLC

VARIABLES
    impl,                   \* which of the two source files is running
    server,                 \* the server: what its rate-limit headers can be
    pages,                  \* the server: the user's repository pages
    endless,                \* the server: every page number has a full page
    order,                  \* the server: which repository data sits where
    now,                    \* the clock, in seconds
    rate_limit_remaining,   \* self.rate_limit_remaining
    rate_limit_reset,       \* self.rate_limit_reset
    pc,                     \* the call of analyze_user_activity in progress
    page,                   \* get_user_repos: page
    all_repos,              \* get_user_repos: all_repos
    repositories,           \* analyze_user_activity: repositories
    repo_i,                 \* position of the `for repo in repositories` loop
    languages,              \* analysis["coding_patterns"]["languages"]
    commit_days,            \* analysis["coding_patterns"]["commit_days"]
    total_stars,            \* analysis["repository_insights"]["total_stars"]
    total_forks,            \* analysis["repository_insights"]["total_forks"]
    popular_repos,          \* analysis["repository_insights"]["popular_repos"]
    result,                 \* what analyze_user_activity returned
    last_request,           \* history: the last call of _make_request
    gets,                   \* history: how many times requests.get was called
    page_requests,          \* history: how many page requests were issued
    folded_languages,       \* history: the language maps folded, in fold order
    clock,                  \* Pokemon programs: time.time(), in ticks
    last_request_time,      \* Pokemon programs: self.last_request_time
    pokedex,                \* the Pokemon server: how many results each page has
    url,                    \* get_all_pokemon: url (a page number, or None)
    all_pokemon,            \* get_all_pokemon: all_pokemon
    fetch_pc,               \* get_all_pokemon: in the loop, or returned
    calls,                  \* history: how many times requests.get was called
    last_get,               \* history: when requests.get was last called
    status                  \* history: the last status code, 0 if it raised

github_vars == <<impl, server, pages, endless, order, now, rate_limit_remaining, rate_limit_reset, pc,
          page, all_repos, repositories, repo_i, languages, commit_days,
          total_stars, total_forks, popular_repos, result, last_request,
          gets, page_requests, folded_languages>>

pokemon_vars == <<clock, last_request_time, pokedex, url, all_pokemon, fetch_pc,
                  calls, last_get, status>>

vars == <<github_vars, pokemon_vars>>

-----------------------------------------------------------------------------
(* Bounds of the model *)

MaxPages == 2       \* pages the server holds before it answers with []
MaxFull == 1        \* how many of them are full (per_page entries)
MaxRepos == 2       \* entries of all pages that are not full, together
MaxTime == 1        \* the server announces a reset in the future up to here
ResetAhead == 10    \* how far ahead that reset is, in seconds
StartTime == 1      \* the clock when the analyzer is constructed
PageCap == 3        \* page requests of an endless source that are followed
Second == 2         \* Pokemon programs: clock ticks in a second
MaxCalls == 4       \* PokemonAPI: calls of _make_request
MaxIdle == 2        \* PokemonAPI: ticks between two calls, at most
MaxDuration == 2    \* Pokemon programs: ticks a request takes, at most
MaxPokePages == 3   \* the Pokemon server: pages of the list
MaxResults == 2     \* the Pokemon server: results on a page, at most

(* Program constants *)

PerPage == 100      \* params={"page": page, "per_page": 100, ...}
LowWater == 5       \* self.rate_limit_remaining < 5
Margin == 1         \* (reset_time - current_time).total_seconds() + 1

None == <<>>        \* Optional values: None is <<>>, a value v is <<v>>
Some(v) == <<v>>

REMAINING == "X-RateLimit-Remaining"
RESET == "X-RateLimit-Reset"

-----------------------------------------------------------------------------
(* Header text and int() *)

Digits == <<"0", "1", "2", "3", "4", "5", "6", "7", "8", "9">>

DigitValue(c) == (CHOOSE d \in 1..10 : Digits[d] = c) - 1

IsDigit(c) == \E d \in 1..10 : Digits[d] = c

RECURSIVE ToDigits(_)
ToDigits(n) ==
    IF n < 10 THEN <<Digits[n + 1]>>
    ELSE Append(ToDigits(n \div 10), Digits[(n % 10) + 1])

\* int(text) raises ValueError unless the text is a number
IntRaises(text) == text = <<>> \/ \E k \in 1..Len(text) : ~IsDigit(text[k])

RECURSIVE IntOf(_)
IntOf(text) ==
    IF Len(text) = 0 THEN 0
    ELSE 10 * IntOf(SubSeq(text, 1, Len(text) - 1)) + DigitValue(text[Len(text)])

\* response.headers.get(name, 0): the default 0 is the text "0" (int(0) = 0)
HeadersGet(headers, name) ==
    IF name \in DOMAIN headers THEN headers[name] ELSE <<"0">>

-----------------------------------------------------------------------------
(* The server: repositories, their languages and commit activity *)

\* Repository records the server can hold; the last row is a repository
\* without stars, forks, languages or commits. Rows 1 and 2 are the
\* repositories A and B of the end-to-end example; row 3 has the stars of
\* row 1, row 4 has more.
Catalog == <<
    [stargazers_count |-> 10, forks_count |-> 2, description |-> "text",
     language |-> "X",
     languages |-> [l \in {"X"} |-> 100],
     commit_activity |-> << <<0, 3, 0, 0, -1, 0, 2>> >>],
    [stargazers_count |-> 0, forks_count |-> 0, description |-> "",
     language |-> "",
     languages |-> [l \in {"X", "Y"} |-> 50],
     commit_activity |-> << <<1, 0, 0, 0, 0, 0, 0>>, <<0, 0, -2, 0, 0, 4, 1>> >>],
    [stargazers_count |-> 10, forks_count |-> 1, description |-> "",
     language |-> "Y",
     languages |-> [l \in {"Y"} |-> 0],
     commit_activity |-> << <<0, 0, 0, 0, 0, 0, 0>> >>],
    [stargazers_count |-> 20, forks_count |-> 0, description |-> "text",
     language |-> "",
     languages |-> [l \in {} |-> 0],
     commit_activity |-> << >>],
    [stargazers_count |-> 0, forks_count |-> 0, description |-> "",
     language |-> "",
     languages |-> [l \in {} |-> 0],
     commit_activity |-> << >>] >>

\* The repository without stars, forks, languages or commits
BlankRepo == Catalog[Len(Catalog)]

\* A repository is named by its number: entry i of page p is (p-1)*100 + i.
RepoId(p, i) == (p - 1) * PerPage + i

PageOf(id) == ((id - 1) \div PerPage) + 1

IndexOf(id) == ((id - 1) % PerPage) + 1

\* One page of the server: a JSON list of n repositories, or JSON that is
\* no list (an object).
ListPage(n) == [list |-> TRUE, n |-> n]

OtherPage == [list |-> FALSE, n |-> 0]

PageKinds == {ListPage(n) : n \in 0..MaxRepos} \cup {ListPage(PerPage), OtherPage}

\* The body of a 200 answer to page p: beyond its last page the server
\* answers []; an endless source has a full page for every page number.
PageBody(pgs, p) ==
    IF endless THEN ListPage(PerPage)
    ELSE IF p <= Len(pgs) THEN pgs[p] ELSE ListPage(0)

PageEntries(pgs, p) == [i \in 1..PageBody(pgs, p).n |-> RepoId(p, i)]

IsFull(pg) == pg = ListPage(PerPage)

RECURSIVE ShortEntries(_)
ShortEntries(pgs) ==
    IF pgs = <<>> THEN 0
    ELSE (IF IsFull(Head(pgs)) THEN 0 ELSE Head(pgs).n) + ShortEntries(Tail(pgs))

\* The server's pages: full pages come first, at most MaxFull of them. An
\* empty list or a page that is no list is the last page: neither version
\* asks for the page after it.
PageSources ==
    {pgs \in UNION {[1..n -> PageKinds] : n \in 0..MaxPages} :
        /\ Cardinality({p \in 1..Len(pgs) : IsFull(pgs[p])}) <= MaxFull
        /\ \A p \in 2..Len(pgs) : IsFull(pgs[p]) => IsFull(pgs[p - 1])
        /\ \A p \in 1..(Len(pgs) - 1) : pgs[p].list /\ pgs[p].n > 0
        /\ ShortEntries(pgs) <= MaxRepos}

\* The user's pages hold fewer than a full page: the crawl ends with page 1
\* in the dashboard version.
ShortSources == {pgs \in PageSources : \A p \in 1..Len(pgs) : ~IsFull(pgs[p])}

\* The user has more than 100 repositories.
FullSources == PageSources \ ShortSources

Orders == {<<1, 2, 3, 4>>, <<3, 1, 4, 2>>, <<1, 4, 3, 2>>}

\* The entries of a page that is not full carry data, laid out by `ord`;
\* the entries of a full page are blank.
Repo(pgs, ord, id) ==
    IF IsFull(PageBody(pgs, PageOf(id)))
    THEN BlankRepo
    ELSE Catalog[ord[((PageOf(id) + IndexOf(id) - 2) % Len(ord)) + 1]]

-----------------------------------------------------------------------------
(* Responses *)

NoHeaders == [h \in {} |-> <<>>]

Headers(remaining, reset) ==
    [h \in {REMAINING, RESET} |-> IF h = REMAINING THEN remaining ELSE reset]

\* The headers of a response at time t.
\*   "github": api.github.com with quota to spare: both headers, numbers.
\*   "any":    a quota that may be low, a reset that may lie in the future,
\*             headers that may be missing or no numbers.
HeaderSets(srv, t) ==
    IF srv = "github"
    THEN {Headers(<<"6", "0">>, ToDigits(t + ResetAhead))}
    ELSE LET rem == {<<"3">>, <<"6", "0">>}
             rst == IF t <= MaxTime THEN {ToDigits(t + ResetAhead)} ELSE {}
         IN  {Headers(a, b) : a \in rem, b \in rst}
             \cup {[h \in {REMAINING} |-> a] : a \in rem}
             \cup {[h \in {RESET} |-> b] : b \in rst}
             \cup {NoHeaders}
             \cup {[h \in {REMAINING} |-> <<"x">>],
                   Headers(<<"3">>, <<"s", "o", "o", "n">>)}

\* What requests.get can do at time t: raise a RequestException (transport),
\* or return a response with a status code and headers.
Responses(srv, t) ==
    {[transport |-> TRUE, status_code |-> 0, headers |-> NoHeaders]}
    \cup {[transport |-> FALSE, status_code |-> s, headers |-> h] :
             s \in {200, 404}, h \in HeaderSets(srv, t)}

-----------------------------------------------------------------------------
(* _make_request *)

\* A variant that sleeps until the reset time and no longer
IssueTimeNoMargin(t, remaining, reset) ==
    IF remaining # None /\ remaining[1] < LowWater /\ reset[1] > t
    THEN t + (reset[1] - t)
    ELSE t

\* A variant that sleeps whether or not the reset time is in the future
IssueTimeIgnoresReset(t, remaining, reset) ==
    IF remaining # None /\ remaining[1] < LowWater
    THEN (IF reset[1] > t THEN reset[1] ELSE t) + Margin
    ELSE t

\* The time at which requests.get is called: after the sleep, if any.
IssueTime(t, remaining, reset) ==
    IF remaining # None /\ remaining[1] < LowWater /\ reset[1] > t
    THEN t + (reset[1] - t) + Margin
    ELSE t

\* A variant that forgets the rate state when requests.get raises
MakeRequestForgets(t, remaining, reset, resp) ==
    LET issued == IssueTime(t, remaining, reset)
        rem == HeadersGet(resp.headers, REMAINING)
        rst == HeadersGet(resp.headers, RESET)
    IN  IF resp.transport
        THEN [issued |-> issued, remaining |-> None, reset |-> None,
              gets |-> 1, outcome |-> "none"]
        ELSE IF IntRaises(rem)
        THEN [issued |-> issued, remaining |-> remaining, reset |-> reset,
              gets |-> 1, outcome |-> "raise"]
        ELSE IF IntRaises(rst)
        THEN [issued |-> issued, remaining |-> Some(IntOf(rem)), reset |-> reset,
              gets |-> 1, outcome |-> "raise"]
        ELSE [issued |-> issued, remaining |-> Some(IntOf(rem)),
              reset |-> Some(IntOf(rst)), gets |-> 1,
              outcome |-> IF resp.status_code = 200 THEN "json" ELSE "none"]

\* The call's effect on the analyzer, the number of calls of requests.get it
\* makes and its outcome:
\*   "json"   response.json() is returned (status 200)
\*   "none"   None is returned (other status, or RequestException)
\*   "raise"  int() raised ValueError, which _make_request does not catch
MakeRequest(t, remaining, reset, resp) ==
    LET issued == IssueTime(t, remaining, reset)
        rem == HeadersGet(resp.headers, REMAINING)
        rst == HeadersGet(resp.headers, RESET)
    IN  IF resp.transport
        THEN [issued |-> issued, remaining |-> remaining, reset |-> reset,
              gets |-> 1, outcome |-> "none"]
        ELSE IF IntRaises(rem)
        THEN [issued |-> issued, remaining |-> remaining, reset |-> reset,
              gets |-> 1, outcome |-> "raise"]
        ELSE IF IntRaises(rst)
        THEN [issued |-> issued, remaining |-> Some(IntOf(rem)), reset |-> reset,
              gets |-> 1, outcome |-> "raise"]
        ELSE [issued |-> issued, remaining |-> Some(IntOf(rem)),
              reset |-> Some(IntOf(rst)), gets |-> 1,
              outcome |-> IF resp.status_code = 200 THEN "json" ELSE "none"]

\* The history record of one call: what was asked, the status code and the
\* headers of the response (0 and none when requests.get raised a
\* RequestException) and how the call ended
Called(endpoint, arg, resp, r) ==
    [endpoint |-> endpoint, arg |-> arg, status_code |-> resp.status_code,
     headers |-> resp.headers, outcome |-> r.outcome]

-----------------------------------------------------------------------------
(* The folds of analyze_user_activity *)

\* A variant that assigns: counter[key] = n
CounterAddOverwrite(counter, key, n) ==
    [k \in DOMAIN counter \cup {key} |-> IF k = key THEN n ELSE counter[k]]

\* counter[key] += n on a collections.Counter
CounterAdd(counter, key, n) ==
    [k \in DOMAIN counter \cup {key} |->
        IF k = key
        THEN (IF key \in DOMAIN counter THEN counter[key] ELSE 0) + n
        ELSE counter[k]]

EmptyCounter == [k \in {} |-> 0]

\* for language, bytes_count in languages.items(): ...[language] += bytes_count
RECURSIVE FoldLanguages(_, _)
FoldLanguages(tally, langs) ==
    IF DOMAIN langs = {} THEN tally
    ELSE LET l == CHOOSE x \in DOMAIN langs : TRUE
         IN  FoldLanguages(CounterAdd(tally, l, langs[l]),
                           [x \in DOMAIN langs \ {l} |-> langs[x]])

\* calendar.day_abbr, indexed from 0 in the code
day_abbr == <<"Mon", "Tue", "Wed", "Thu", "Fri", "Sat", "Sun">>

\* The length of "days" in one commit-activity week
WeekDays == Len(day_abbr)

\* A variant without the `if count > 0` test
RECURSIVE FoldWeekUnguarded(_, _, _)
FoldWeekUnguarded(tally, days, day_idx) ==
    IF day_idx >= Len(days) THEN tally
    ELSE FoldWeekUnguarded(
             CounterAdd(tally, day_abbr[day_idx + 1], days[day_idx + 1]),
             days, day_idx + 1)

\* for day_idx, count in enumerate(week.get("days", [])): if count > 0: ...
RECURSIVE FoldWeek(_, _, _)
FoldWeek(tally, days, day_idx) ==
    IF day_idx >= Len(days) THEN tally
    ELSE FoldWeek(IF days[day_idx + 1] > 0
                  THEN CounterAdd(tally, day_abbr[day_idx + 1], days[day_idx + 1])
                  ELSE tally,
                  days, day_idx + 1)

\* if commit_activity: for week in commit_activity: ...
RECURSIVE FoldCommits(_, _)
FoldCommits(tally, weeks) ==
    IF weeks = <<>> THEN tally
    ELSE FoldCommits(FoldWeek(tally, Head(weeks), 0), Tail(weeks))

\* A variant that assigns: total = n
AddToTotalAssign(total, n) == n

\* analysis["repository_insights"][...] += repo[...]
AddToTotal(total, n) == total + n

\* x or default
OrDefault(x, default) == IF x = "" THEN default ELSE x

\* A variant that lists every repository
AppendPopularAlways(popular, id, repo) ==
    IF repo.stargazers_count >= 0
    THEN Append(popular,
                [name |-> id, stars |-> repo.stargazers_count,
                 forks |-> repo.forks_count,
                 description |-> repo.description,
                 main_language |-> repo.language])
    ELSE popular

\* if repo["stargazers_count"] > 0: popular_repos.append({...})
AppendPopular(popular, id, repo) ==
    IF repo.stargazers_count > 0
    THEN Append(popular,
                [name |-> id, stars |-> repo.stargazers_count,
                 forks |-> repo.forks_count,
                 description |-> OrDefault(repo.description, "No description"),
                 main_language |-> OrDefault(repo.language, "Not specified")])
    ELSE popular

\* A variant that puts an entry before the entries of equal stars
RECURSIVE InsertByStarsBefore(_, _)
InsertByStarsBefore(sorted, e) ==
    IF sorted = <<>> THEN <<e>>
    ELSE IF Head(sorted).stars > e.stars
    THEN <<Head(sorted)>> \o InsertByStarsBefore(Tail(sorted), e)
    ELSE <<e>> \o sorted

\* popular_repos.sort(key=lambda x: x["stars"], reverse=True): a stable sort
RECURSIVE InsertByStars(_, _)
InsertByStars(sorted, e) ==
    IF sorted = <<>> THEN <<e>>
    ELSE IF Head(sorted).stars >= e.stars
    THEN <<Head(sorted)>> \o InsertByStars(Tail(sorted), e)
    ELSE <<e>> \o sorted

RECURSIVE SortByStars(_)
SortByStars(popular) ==
    IF popular = <<>> THEN <<>>
    ELSE InsertByStars(SortByStars(SubSeq(popular, 1, Len(popular) - 1)),
                       popular[Len(popular)])

-----------------------------------------------------------------------------
(* get_user_repos: what one page does to the loop *)

\* A variant that skips a page
NextPageSkips(p) == p + 2

\* page += 1
NextPage(p) == p + 1

\* if not repos_page or not isinstance(repos_page, list): break
BreaksOnPage(outcome, body) == outcome # "json" \/ ~body.list \/ body.n = 0

\* A variant that also stops after a page of exactly 100 entries
BreaksAfterPageOffByOne(im, body) == im = "dashboard" /\ body.n <= PerPage

\* dashboard version only: if len(repos_page) < 100: break
BreaksAfterPage(im, body) == im = "dashboard" /\ body.n < PerPage

\* get_user_repos of version `im` as a function of the page source, from
\* page p on with all_repos = acc: the request for page `fail` returns None
\* (fail = 0: every request returns its page).
RECURSIVE Crawl(_, _, _, _, _)
Crawl(im, pgs, fail, p, acc) ==
    LET body == PageBody(pgs, p)
        outcome == IF p = fail THEN "none" ELSE "json"
    IN  IF BreaksOnPage(outcome, body) THEN acc
        ELSE IF BreaksAfterPage(im, body) THEN acc \o PageEntries(pgs, p)
        ELSE Crawl(im, pgs, fail, NextPage(p), acc \o PageEntries(pgs, p))

-----------------------------------------------------------------------------
(* The analyzer after GitHubAnalyzer(token), about to analyse one user *)

NoRequest ==
    [endpoint |-> "none", arg |-> 0, status_code |-> 0, headers |-> NoHeaders,
     outcome |-> "none"]

Constructed ==
    /\ impl \in {"terminal", "dashboard"}
    /\ now = StartTime
    /\ rate_limit_remaining = None
    /\ rate_limit_reset = None
    /\ pc = "get_user_info"
    /\ page = 0
    /\ all_repos = <<>>
    /\ repositories = <<>>
    /\ repo_i = 0
    /\ languages = EmptyCounter
    /\ commit_days = EmptyCounter
    /\ total_stars = 0
    /\ total_forks = 0
    /\ popular_repos = <<>>
    /\ result = "none"
    /\ last_request = NoRequest
    /\ gets = 0
    /\ page_requests = 0
    /\ folded_languages = <<>>

\* The Pokemon programs are not running
NoPokemon ==
    /\ clock = 0
    /\ last_request_time = 0
    /\ pokedex = <<>>
    /\ url = None
    /\ all_pokemon = <<>>
    /\ fetch_pc = "none"
    /\ calls = 0
    /\ last_get = None
    /\ status = 0

\* A user with fewer than 100 repositories on every page, any server
Init ==
    /\ Constructed
    /\ NoPokemon
    /\ server = "any"
    /\ endless = FALSE
    /\ pages \in ShortSources
    /\ order \in Orders

\* A user whose first pages are full, or a source that has a full page for
\* every page number, crawled with quota to spare
InitFull ==
    /\ Constructed
    /\ NoPokemon
    /\ server = "github"
    /\ \/ endless = FALSE /\ pages \in FullSources
       \/ endless = TRUE /\ pages = <<>>
    /\ order = <<1, 2, 3, 4>>

\* What every call of _make_request does to the analyzer and the clock
Request(endpoint, arg, resp, r) ==
    /\ now' = r.issued
    /\ rate_limit_remaining' = r.remaining
    /\ rate_limit_reset' = r.reset
    /\ last_request' = Called(endpoint, arg, resp, r)
    /\ gets' = gets + r.gets

\* The ValueError of int() leaves analyze_user_activity: its local
\* variables, the analysis among them, are gone.
Raise ==
    /\ pc' = "raised"
    /\ page' = 0
    /\ all_repos' = <<>>
    /\ repositories' = <<>>
    /\ repo_i' = 0
    /\ languages' = EmptyCounter
    /\ commit_days' = EmptyCounter
    /\ total_stars' = 0
    /\ total_forks' = 0
    /\ popular_repos' = <<>>
    /\ folded_languages' = <<>>
    /\ UNCHANGED result

\* The loop over `repos` starts, or, without repositories, the analysis is
\* sorted and returned.
StartFold(repos) ==
    /\ repositories' = repos
    /\ all_repos' = <<>>
    /\ IF repos = <<>>
       THEN /\ pc' = "returned"
            /\ result' = "analysis"
            /\ popular_repos' = SortByStars(popular_repos)
            /\ repo_i' = 0
       ELSE /\ pc' = "get_repo_languages"
            /\ repo_i' = 1
            /\ UNCHANGED <<result, popular_repos>>

\* user_info = self.get_user_info(username); if not user_info: return {}
GetUserInfo ==
    /\ pc = "get_user_info"
    /\ \E resp \in Responses(server, IssueTime(now, rate_limit_remaining, rate_limit_reset)) :
        LET r == MakeRequest(now, rate_limit_remaining, rate_limit_reset, resp)
        IN  /\ Request("users", 0, resp, r)
            /\ IF r.outcome = "raise" THEN Raise
               ELSE IF r.outcome = "none"
               THEN /\ pc' = "returned"
                    /\ result' = "empty"
                    /\ UNCHANGED <<page, all_repos, repositories, repo_i,
                                   languages, commit_days, total_stars,
                                   total_forks, popular_repos, folded_languages>>
               ELSE /\ pc' = "get_user_repos"
                    /\ page' = 1
                    /\ all_repos' = <<>>
                    /\ UNCHANGED <<repositories, repo_i, languages, commit_days,
                                   total_stars, total_forks, popular_repos,
                                   result, folded_languages>>
    /\ UNCHANGED <<pokemon_vars, impl, server, pages, endless, order, page_requests>>

\* One turn of the `while True` loop of get_user_repos. (The loop has no
\* bound of its own: the crawl of an endless source is followed for
\* PageCap + 1 page requests.)
GetUserReposPage ==
    /\ pc = "get_user_repos"
    /\ endless => page_requests <= PageCap
    /\ \E resp \in Responses(server, IssueTime(now, rate_limit_remaining, rate_limit_reset)) :
        LET r == MakeRequest(now, rate_limit_remaining, rate_limit_reset, resp)
            body == PageBody(pages, page)
        IN  /\ Request("repos", page, resp, r)
            /\ page_requests' = page_requests + 1
            /\ IF r.outcome = "raise" THEN Raise
               ELSE IF BreaksOnPage(r.outcome, body)
               THEN /\ StartFold(all_repos)
                    /\ UNCHANGED <<page, languages, commit_days, total_stars,
                                   total_forks, folded_languages>>
               ELSE IF BreaksAfterPage(impl, body)
               THEN /\ StartFold(all_repos \o PageEntries(pages, page))
                    /\ page' = NextPage(page)
                    /\ UNCHANGED <<languages, commit_days, total_stars,
                                   total_forks, folded_languages>>
               ELSE /\ all_repos' = all_repos \o PageEntries(pages, page)
                    /\ page' = NextPage(page)
                    /\ UNCHANGED <<pc, repositories, repo_i, languages,
                                   commit_days, total_stars, total_forks,
                                   popular_repos, result, folded_languages>>
    /\ UNCHANGED <<pokemon_vars, impl, server, pages, endless, order>>

\* languages = self.get_repo_languages(repo["full_name"]) and its fold
GetRepoLanguages ==
    /\ pc = "get_repo_languages"
    /\ \E resp \in Responses(server, IssueTime(now, rate_limit_remaining, rate_limit_reset)) :
        LET r == MakeRequest(now, rate_limit_remaining, rate_limit_reset, resp)
            id == repositories[repo_i]
            langs == IF r.outcome = "json" THEN Repo(pages, order, id).languages
                     ELSE EmptyCounter
        IN  /\ Request("languages", id, resp, r)
            /\ IF r.outcome = "raise" THEN Raise
               ELSE /\ languages' = FoldLanguages(languages, langs)
                    /\ folded_languages' = Append(folded_languages, langs)
                    /\ pc' = "get_commit_activity"
                    /\ UNCHANGED <<page, all_repos, repositories, repo_i,
                                   commit_days, total_stars, total_forks,
                                   popular_repos, result>>
    /\ UNCHANGED <<pokemon_vars, impl, server, pages, endless, order, page_requests>>

\* commit_activity = self.get_commit_activity(repo["full_name"]), its fold,
\* the totals and the popular list of this repository; after the last
\* repository, the sort and the return.
GetCommitActivity ==
    /\ pc = "get_commit_activity"
    /\ \E resp \in Responses(server, IssueTime(now, rate_limit_remaining, rate_limit_reset)) :
        LET r == MakeRequest(now, rate_limit_remaining, rate_limit_reset, resp)
            id == repositories[repo_i]
            repo == Repo(pages, order, id)
            weeks == IF r.outcome = "json" THEN repo.commit_activity ELSE <<>>
            popular == AppendPopular(popular_repos, id, repo)
        IN  /\ Request("commit_activity", id, resp, r)
            /\ IF r.outcome = "raise" THEN Raise
               ELSE /\ commit_days' = FoldCommits(commit_days, weeks)
                    /\ total_stars' = AddToTotal(total_stars, repo.stargazers_count)
                    /\ total_forks' = AddToTotal(total_forks, repo.forks_count)
                    /\ IF repo_i < Len(repositories)
                       THEN /\ popular_repos' = popular
                            /\ repo_i' = repo_i + 1
                            /\ pc' = "get_repo_languages"
                            /\ UNCHANGED result
                       ELSE /\ popular_repos' = SortByStars(popular)
                            /\ pc' = "returned"
                            /\ result' = "analysis"
                            /\ UNCHANGED repo_i
                    /\ UNCHANGED <<page, all_repos, repositories, languages,
                                   folded_languages>>
    /\ UNCHANGED <<pokemon_vars, impl, server, pages, endless, order, page_requests>>

\* Dashboard version: the script runs again when "Analyze Profile" is
\* pressed once more (same token, same user), after the previous run ended
\* with a report or with the exception shown. main constructs a new
\* GitHubAnalyzer for the run.
\*   if analyze_button and token and username:
\*       analyzer = GitHubAnalyzer(token)
\*       analysis = analyzer.analyze_user_activity(username)
\* The terminal version analyses one user and exits.
AnalyzeButton ==
    /\ impl = "dashboard"
    /\ pc \in {"returned", "raised"}
    /\ rate_limit_remaining' = None
    /\ rate_limit_reset' = None
    /\ pc' = "get_user_info"
    /\ page' = 0
    /\ all_repos' = <<>>
    /\ repositories' = <<>>
    /\ repo_i' = 0
    /\ languages' = EmptyCounter
    /\ commit_days' = EmptyCounter
    /\ total_stars' = 0
    /\ total_forks' = 0
    /\ popular_repos' = <<>>
    /\ result' = "none"
    /\ last_request' = NoRequest
    /\ gets' = 0
    /\ page_requests' = 0
    /\ folded_languages' = <<>>
    /\ UNCHANGED <<pokemon_vars, impl, server, pages, endless, order, now>>

Next ==
    \/ GetUserInfo
    \/ GetUserReposPage
    \/ GetRepoLanguages
    \/ GetCommitActivity
    \/ AnalyzeButton

Spec == Init /\ [][Next]_vars

SpecFull == InitFull /\ [][Next]_vars

-----------------------------------------------------------------------------
(* PokemonAPI (src/poke_training.py) and PokemonListFetcher *)
(* (src/poke_test.py) *)

\* GitHubAnalyzer is not running
NoGitHub ==
    /\ Constructed
    /\ impl = "terminal"
    /\ server = "github"
    /\ pages = <<>>
    /\ endless = FALSE
    /\ order = <<1, 2, 3, 4>>

\* The clock when a Pokemon program starts: time.time() is far from 0
Epoch == 2 * Second

\* What requests.get can do: return a response with a status code, or
\* raise a RequestException (0)
StatusCodes == {200, 404, 0}

\* time_since_last_request = current_time - self.last_request_time
\* if time_since_last_request < 1: time.sleep(1 - time_since_last_request)
\* The time after it.
AfterWait(current_time, last) ==
    IF current_time - last < Second
    THEN current_time + (Second - (current_time - last))
    ELSE current_time

\* api = PokemonAPI()
InitPokemonAPI ==
    /\ NoGitHub
    /\ clock = Epoch
    /\ last_request_time = 0
    /\ pokedex = <<>>
    /\ url = None
    /\ all_pokemon = <<>>
    /\ fetch_pc = "none"
    /\ calls = 0
    /\ last_get = None
    /\ status = 0

\* One call of PokemonAPI._make_request, `idle` ticks after the call before
\* it returned (the caller reads input between calls); requests.get takes
\* `duration` ticks. self.last_request_time is assigned after requests.get
\* returned, and not when it raised.
PokemonApiMakeRequest ==
    /\ calls < MaxCalls
    /\ \E idle \in 0..MaxIdle, duration \in 0..MaxDuration, code \in StatusCodes :
        LET current_time == clock + idle
            get_time == AfterWait(current_time, last_request_time)
        IN  /\ last_get' = Some(get_time)
            /\ clock' = get_time + duration
            /\ last_request_time' = IF code = 0 THEN last_request_time
                                    ELSE get_time + duration
            /\ status' = code
            /\ calls' = calls + 1
    /\ UNCHANGED <<github_vars, pokedex, url, all_pokemon, fetch_pc>>

NextPokemonAPI == PokemonApiMakeRequest

SpecPokemonAPI == InitPokemonAPI /\ [][NextPokemonAPI]_vars

\* The list of the server: 1..MaxPokePages pages, page p with pokedex[p]
\* results
Pokedexes == UNION {[1..n -> 0..MaxResults] : n \in 1..MaxPokePages}

\* data['results'] of page p: the results are named by page and place
Results(dex, p) == [i \in 1..dex[p] |-> <<p, i>>]

\* data['next'] of page p: None on the last page
NextLink(dex, p) == IF p < Len(dex) THEN Some(p + 1) ELSE None

\* A variant that keeps the last page alone
ExtendReplaces(list, results) == results

\* all_pokemon.extend(data['results'])
Extend(list, results) == list \o results

\* fetcher = PokemonListFetcher(); fetcher.get_all_pokemon() up to the loop
InitFetcher ==
    /\ NoGitHub
    /\ clock = Epoch
    /\ last_request_time = 0
    /\ pokedex \in Pokedexes
    /\ url = Some(1)
    /\ all_pokemon = <<>>
    /\ fetch_pc = "loop"
    /\ calls = 0
    /\ last_get = None
    /\ status = 0

\* One turn of the `while url` loop of get_all_pokemon: wait_if_needed,
\* which assigns self.last_request_time the time read before its sleep,
\* then requests.get, which takes `duration` ticks; after the last turn,
\* the return.
FetchPokemonPage ==
    /\ fetch_pc = "loop"
    /\ url # None
    /\ \E duration \in 0..MaxDuration, code \in StatusCodes :
        LET current_time == clock
            get_time == AfterWait(current_time, last_request_time)
        IN  /\ last_request_time' = current_time
            /\ last_get' = Some(get_time)
            /\ clock' = get_time + duration
            /\ status' = code
            /\ calls' = calls + 1
            /\ IF code = 200
               THEN /\ all_pokemon' = Extend(all_pokemon, Results(pokedex, url[1]))
                    /\ url' = NextLink(pokedex, url[1])
                    /\ fetch_pc' = IF url' = None THEN "returned" ELSE "loop"
               ELSE /\ fetch_pc' = "returned"
                    /\ UNCHANGED <<url, all_pokemon>>
    /\ UNCHANGED <<github_vars, pokedex>>

NextFetcher == FetchPokemonPage

SpecFetcher == InitFetcher /\ [][NextFetcher]_vars

-----------------------------------------------------------------------------
(* Vocabulary of the properties *)

\* The entries of pages 1..n of the server, in page order
RECURSIVE ConcatPages(_, _)
ConcatPages(pgs, n) ==
    IF n = 0 THEN <<>> ELSE ConcatPages(pgs, n - 1) \o PageEntries(pgs, n)

\* Every page but the last has exactly 100 entries, the last has 1..99
FullThenShort(pgs) ==
    /\ Len(pgs) >= 1
    /\ \A p \in 1..(Len(pgs) - 1) : IsFull(pgs[p])
    /\ pgs[Len(pgs)].list
    /\ pgs[Len(pgs)].n >= 1
    /\ pgs[Len(pgs)].n < PerPage

\* get_user_repos has returned and no other request was made since
ReposReturned ==
    /\ last_request.endpoint = "repos"
    /\ pc \in {"get_repo_languages", "returned"}

\* The last request failed: a status other than 200, or a transport failure
RequestFailed == last_request.endpoint # "none" /\ last_request.status_code # 200

\* The last request was answered 200
RequestAnswered == last_request.status_code = 200

-----------------------------------------------------------------------------
(* Properties *)

\* C1: for a page source whose pages are all full but the last, which has
\* 1..99 entries, get_user_repos, all of whose page requests were answered,
\* returns the concatenation of all pages in page order and within-page
\* order, nothing dropped or duplicated.
C1_ReturnsConcatenation ==
    (ReposReturned /\ last_request.outcome = "json" /\ FullThenShort(pages))
        => repositories = ConcatPages(pages, Len(pages))

C1_Witness ==
    /\ ReposReturned
    /\ last_request.outcome = "json"
    /\ FullThenShort(pages)
    /\ Len(pages) >= 2
    /\ Len(repositories) > PerPage

\* C2: a page with fewer than 100 entries is the end of the stream, so the
\* loop asks for another page only after a page of at least 100 entries.
C2_NoRequestAfterShortPage ==
    (pc = "get_user_repos" /\ page > 1)
        => PageBody(pages, page - 1).n >= PerPage

\* C2, dashboard version alone: the loop goes on only after a full page.
C2_DashboardStopsAfterShortPage ==
    (impl = "dashboard" /\ pc = "get_user_repos" /\ page > 1)
        => PageBody(pages, page - 1).n >= PerPage

\* C3: when the request for page N fails (status other than 200, or
\* transport failure), nothing is raised, no further page is requested,
\* get_user_repos returns the entries of pages 1..N-1 and the analysis goes
\* on to fold them into a result.
C3_FailedPageReturnsPrefix ==
    (last_request.endpoint = "repos" /\ RequestFailed)
        => /\ pc # "raised"
           /\ ReposReturned
           /\ page_requests = last_request.arg
           /\ repositories = ConcatPages(pages, last_request.arg - 1)
           /\ result # "empty"
           /\ (repositories = <<>> => result = "analysis")
           /\ (repositories # <<>> => repo_i = 1)

\* C3 for the calls of _make_request that return None: the policy of
\* get_user_repos itself.
C3_NoneReturnsPrefix ==
    (last_request.endpoint = "repos" /\ last_request.outcome = "none")
        => /\ ReposReturned
           /\ page_requests = last_request.arg
           /\ repositories = ConcatPages(pages, last_request.arg - 1)
           /\ (repositories = <<>> => result = "analysis")
           /\ (repositories # <<>> => repo_i = 1)

\* C4: a 200 page that is an empty list or no list ends the stream: nothing
\* is raised, no further page is requested and the entries of the previous
\* pages are returned unchanged.
C4_EmptyOrMalformedPageEnds ==
    (/\ last_request.endpoint = "repos"
     /\ RequestAnswered
     /\ (~PageBody(pages, last_request.arg).list
            \/ PageBody(pages, last_request.arg).n = 0))
        => /\ pc # "raised"
           /\ ReposReturned
           /\ page_requests = last_request.arg
           /\ repositories = ConcatPages(pages, last_request.arg - 1)

\* C4 for the calls of _make_request that return the page
C4_ReturnedPageEnds ==
    (/\ last_request.endpoint = "repos"
     /\ last_request.outcome = "json"
     /\ (~PageBody(pages, last_request.arg).list
            \/ PageBody(pages, last_request.arg).n = 0))
        => /\ ReposReturned
           /\ page_requests = last_request.arg
           /\ repositories = ConcatPages(pages, last_request.arg - 1)

\* C5: a call of _make_request made while rate_limit_remaining is known and
\* below 5 and rate_limit_reset is in the future issues its GET no earlier
\* than rate_limit_reset + 1 second, whichever request it is. (The clock
\* after a call is the time its GET was issued.)
C5_WaitsUntilReset ==
    [][(/\ gets' = gets + 1
        /\ rate_limit_remaining # None
        /\ rate_limit_reset # None
        /\ rate_limit_remaining[1] < LowWater
        /\ rate_limit_reset[1] > now)
          => now' >= rate_limit_reset[1] + Margin]_vars

\* A request that was delayed: the clock only moves when _make_request sleeps
C5_Witness ==
    /\ now >= StartTime + ResetAhead + Margin
    /\ last_request.endpoint = "commit_activity"

\* C6: when the user-profile request fails (status other than 200, or
\* transport failure), analyze_user_activity returns the empty result
\* without raising, and no further request is issued.
C6_FailedProfileReturnsEmpty ==
    /\ (last_request.endpoint = "users" /\ RequestFailed)
          => (pc = "returned" /\ result = "empty")
    /\ result = "empty" => (last_request.endpoint = "users" /\ page_requests = 0)

\* C6 for the calls of _make_request that return None
C6_NoneProfileReturnsEmpty ==
    /\ (last_request.endpoint = "users" /\ last_request.outcome = "none")
          => (pc = "returned" /\ result = "empty")
    /\ result = "empty" => (last_request.endpoint = "users" /\ page_requests = 0)

\* The step after a languages request: the repository is folded with
\* `langs` and its commit-activity request is next.
LanguagesFolded(langs) ==
    /\ languages' = FoldLanguages(languages, langs)
    /\ pc' = "get_commit_activity"
    /\ repo_i' = repo_i
    /\ UNCHANGED <<commit_days, total_stars, total_forks, popular_repos>>

\* The step after a commit-activity request: the repository is folded with
\* `weeks`, its stars and forks are added and the next repository, if any,
\* is taken up.
CommitsFolded(weeks) ==
    LET repo == Repo(pages, order, repositories[repo_i])
    IN  /\ commit_days' = FoldCommits(commit_days, weeks)
        /\ total_stars' = total_stars + repo.stargazers_count
        /\ total_forks' = total_forks + repo.forks_count
        /\ languages' = languages
        /\ IF repo_i < Len(repositories)
           THEN pc' = "get_repo_languages" /\ repo_i' = repo_i + 1
           ELSE pc' = "returned" /\ result' = "analysis"

\* C7: a repository whose languages or commit-activity request fails is
\* folded with an empty languages map, or an empty sequence of weeks; its
\* stars and forks are added all the same and the crawl goes on with the
\* other sub-resource and with the following repository.
C7_FailedSubResourceFoldsEmpty ==
    [][/\ (pc = "get_repo_languages" /\ last_request'.status_code # 200)
            => LanguagesFolded(EmptyCounter)
       /\ (pc = "get_commit_activity" /\ last_request'.status_code # 200)
            => CommitsFolded(<<>>)]_vars

\* C7 for the calls of _make_request that return None
C7_NoneSubResourceFoldsEmpty ==
    [][/\ (pc = "get_repo_languages" /\ last_request'.outcome = "none")
            => LanguagesFolded(EmptyCounter)
       /\ (pc = "get_commit_activity" /\ last_request'.outcome = "none")
            => CommitsFolded(<<>>)]_vars

\* C8: whatever the outcomes of the requests (200, another status, transport
\* failure), analyze_user_activity never ends in an uncaught exception.
C8_NeverRaises == pc # "raised"

\* C8 for the calls of _make_request that return: the analysis ends with a
\* result, the empty one exactly when the profile request returned None.
C8_EndsWithResult ==
    /\ pc = "returned" => result \in {"empty", "analysis"}
    /\ pc = "raised" => last_request.outcome = "raise"
    /\ (pc \notin {"returned", "raised"})
          => (ENABLED Next \/ (endless /\ page_requests > PageCap))

-----------------------------------------------------------------------------
(* The tallies *)

Get(counter, key) == IF key \in DOMAIN counter THEN counter[key] ELSE 0

\* The sum of one language's byte counts over a sequence of language maps
RECURSIVE SumOver(_, _)
SumOver(maps, l) ==
    IF maps = <<>> THEN 0 ELSE Get(Head(maps), l) + SumOver(Tail(maps), l)

RECURSIVE FoldMaps(_, _)
FoldMaps(tally, maps) ==
    IF maps = <<>> THEN tally
    ELSE FoldMaps(FoldLanguages(tally, Head(maps)), Tail(maps))

Orderings(n) == {q \in [1..n -> 1..n] : \A i, j \in 1..n : q[i] = q[j] => i = j}

\* C9: after N repositories are folded the languages tally holds, for every
\* language, the sum of its byte counts over the N language maps, and
\* folding the N maps in any other order gives the same tally.
C9_LanguageTallyIsSum ==
    /\ DOMAIN languages =
          UNION {DOMAIN folded_languages[i] : i \in 1..Len(folded_languages)}
    /\ \A l \in DOMAIN languages : languages[l] = SumOver(folded_languages, l)
    /\ \A q \in Orderings(Len(folded_languages)) :
          FoldMaps(EmptyCounter,
                   [i \in 1..Len(folded_languages) |-> folded_languages[q[i]]])
             = languages

\* Two repositories with different maps sharing a language were folded
C9_Witness ==
    /\ Len(folded_languages) >= 2
    /\ folded_languages[1] # folded_languages[2]
    /\ \E l \in DOMAIN folded_languages[1] \cap DOMAIN folded_languages[2] :
          languages[l] = folded_languages[1][l] + folded_languages[2][l]
             /\ folded_languages[1][l] > 0

Weekdays == {"Mon", "Tue", "Wed", "Thu", "Fri", "Sat", "Sun"}

TallyOk(tally) == \A k \in DOMAIN tally : k \in Weekdays /\ tally[k] >= 0

\* The tallies the fold of `weeks` passes through, week by week and day by day
FoldStates(tally, weeks) ==
    {FoldWeek(FoldCommits(tally, SubSeq(weeks, 1, w)),
              SubSeq(weeks[w + 1], 1, d), 0) :
        w \in 0..(Len(weeks) - 1), d \in 0..WeekDays}

\* C10: at every point of the folding of commit-activity weeks, whatever the
\* day counts (zero and negative ones too), every value of commit_days is
\* >= 0 and every key is one of the seven weekday labels.
C10_CommitDaysTallyOk ==
    /\ TallyOk(commit_days)
    /\ pc = "get_commit_activity" =>
          \A t \in FoldStates(commit_days,
                              Repo(pages, order, repositories[repo_i]).commit_activity) :
              TallyOk(t)

\* Weeks with a negative and a zero count were folded
C10_Witness ==
    /\ DOMAIN commit_days # {}
    /\ last_request.endpoint = "commit_activity"
    /\ last_request.outcome = "json"
    /\ \E w \in 1..Len(Repo(pages, order, last_request.arg).commit_activity) :
          \E d \in 1..WeekDays :
              Repo(pages, order, last_request.arg).commit_activity[w][d] < 0

-----------------------------------------------------------------------------
(* The returned result *)

\* The place of a repository in the crawl
Encountered(id) == CHOOSE i \in 1..Len(repositories) : repositories[i] = id

\* C11: in the returned result popular_repos is sorted in descending order
\* of stars, and two entries of equal stars are in the order in which the
\* crawl met their repositories.
C11_PopularSortedStable ==
    result = "analysis" =>
        \A i, j \in 1..Len(popular_repos) :
            i < j =>
                /\ popular_repos[i].stars >= popular_repos[j].stars
                /\ popular_repos[i].stars = popular_repos[j].stars
                      => Encountered(popular_repos[i].name)
                            < Encountered(popular_repos[j].name)

\* A result with two entries of equal stars
C11_Witness ==
    /\ result = "analysis"
    /\ Len(popular_repos) >= 2
    /\ popular_repos[1].stars = popular_repos[2].stars

\* A result whose entries were met in ascending order of stars
C11_SortedAgainstCrawlOrder ==
    /\ result = "analysis"
    /\ Len(popular_repos) >= 2
    /\ Encountered(popular_repos[1].name) > Encountered(popular_repos[2].name)

RECURSIVE SumOfStars(_)
SumOfStars(ids) ==
    IF ids = <<>> THEN 0
    ELSE Repo(pages, order, Head(ids)).stargazers_count + SumOfStars(Tail(ids))

RECURSIVE SumOfForks(_)
SumOfForks(ids) ==
    IF ids = <<>> THEN 0
    ELSE Repo(pages, order, Head(ids)).forks_count + SumOfForks(Tail(ids))

\* C12: in the returned result total_stars is the sum of stargazers_count
\* and total_forks the sum of forks_count over every repository the
\* paginator returned, whether or not the repository's languages and
\* commit-activity requests succeeded.
C12_TotalsAreSums ==
    result = "analysis" =>
        /\ total_stars = SumOfStars(repositories)
        /\ total_forks = SumOfForks(repositories)

\* The end-to-end example (10 stars, 2 forks), returned although the last
\* commit-activity request failed
C12_Witness ==
    /\ result = "analysis"
    /\ Len(repositories) = 2
    /\ total_stars = 10
    /\ total_forks = 2
    /\ last_request.endpoint = "commit_activity"
    /\ last_request.status_code # 200

\* C13: popular_repos has exactly one entry for every fetched repository
\* with stargazers_count > 0 and none for a repository with
\* stargazers_count = 0; an entry carries the name, stars and forks of its
\* repository.
C13_PopularEntries ==
    result = "analysis" =>
        /\ \A i \in 1..Len(repositories) :
              Cardinality({k \in 1..Len(popular_repos) :
                              popular_repos[k].name = repositories[i]})
                 = IF Repo(pages, order, repositories[i]).stargazers_count > 0
                   THEN 1 ELSE 0
        /\ \A k \in 1..Len(popular_repos) :
              /\ \E i \in 1..Len(repositories) :
                    popular_repos[k].name = repositories[i]
              /\ popular_repos[k].stars
                    = Repo(pages, order, popular_repos[k].name).stargazers_count
              /\ popular_repos[k].forks
                    = Repo(pages, order, popular_repos[k].name).forks_count

\* The end-to-end example: two repositories, one entry
C13_Witness ==
    /\ result = "analysis"
    /\ Len(repositories) = 2
    /\ Len(popular_repos) = 1
    /\ Repo(pages, order, repositories[2]).stargazers_count = 0

-----------------------------------------------------------------------------
(* The rate state *)

\* The step is a call of _make_request in which requests.get raised a
\* RequestException
TransportFailed == last_request'.endpoint # "none" /\ last_request'.status_code = 0

\* The step is a call of _make_request in which a response was received
ResponseReceived == last_request'.endpoint # "none" /\ last_request'.status_code # 0

\* C14: on a transport failure of the GET, _make_request returns the failure
\* value, calls requests.get once and no second time, and leaves
\* rate_limit_remaining and rate_limit_reset as they were before the call.
C14_TransportFailureFrame ==
    [][TransportFailed
          => /\ last_request'.outcome = "none"
             /\ pc' # "raised"
             /\ gets' = gets + 1
             /\ rate_limit_remaining' = rate_limit_remaining
             /\ rate_limit_reset' = rate_limit_reset]_vars

\* A transport failure of an analyzer that knows a rate state
C14_Witness ==
    /\ last_request.endpoint = "languages"
    /\ last_request.status_code = 0
    /\ rate_limit_remaining = Some(3)
    /\ rate_limit_reset # None
    /\ rate_limit_reset[1] > 0

\* The header is present and a number
Carries(headers, name) == name \in DOMAIN headers /\ ~IntRaises(headers[name])

\* C15: after every response that is received, whatever its status, the
\* rate state holds the remaining quota and the reset time carried by the
\* headers of that response; a response of another status than 200 updates
\* the rate state and is returned as the failure value, not raised.
C15_ResponseSetsRateState ==
    (last_request.endpoint # "none" /\ last_request.status_code # 0)
        => /\ last_request.outcome # "raise"
           /\ last_request.status_code # 200 => last_request.outcome = "none"
           /\ Carries(last_request.headers, REMAINING)
                 => rate_limit_remaining = Some(IntOf(last_request.headers[REMAINING]))
           /\ Carries(last_request.headers, RESET)
                 => rate_limit_reset = Some(IntOf(last_request.headers[RESET]))

\* C15 for the responses both of whose rate-limit headers are numbers
C15_NumericResponseSetsRateState ==
    (/\ last_request.endpoint # "none"
     /\ last_request.status_code # 0
     /\ Carries(last_request.headers, REMAINING)
     /\ Carries(last_request.headers, RESET))
        => /\ last_request.outcome = IF last_request.status_code = 200
                                     THEN "json" ELSE "none"
           /\ rate_limit_remaining = Some(IntOf(last_request.headers[REMAINING]))
           /\ rate_limit_reset = Some(IntOf(last_request.headers[RESET]))

\* C16: in every reachable state of an analyzer rate_limit_remaining and
\* rate_limit_reset are both unknown or both set, never one set and the
\* other unknown.
C16_BothUnknownOrBothSet ==
    (rate_limit_remaining = None) <=> (rate_limit_reset = None)

\* C17: when a second analysis starts, the rate state read before its first
\* request is the one the last response of the previous analysis left.
C17_RateStateSurvives ==
    [][(pc \in {"returned", "raised"} /\ pc' = "get_user_info")
          => /\ rate_limit_remaining' = rate_limit_remaining
             /\ rate_limit_reset' = rate_limit_reset]_vars

\* The weekday of index 0..6 of "days" in the API's convention
ApiDay == <<"Sun", "Mon", "Tue", "Wed", "Thu", "Fri", "Sat">>

\* The positive counts at index day_idx of the weeks, added up
RECURSIVE PositiveSum(_, _)
PositiveSum(weeks, day_idx) ==
    IF weeks = <<>> THEN 0
    ELSE (IF Head(weeks)[day_idx + 1] > 0 THEN Head(weeks)[day_idx + 1] ELSE 0)
            + PositiveSum(Tail(weeks), day_idx)

\* The step folds the commit activity of a repository, crediting index
\* day_idx of "days" to the label labels[day_idx + 1]
Credits(labels) ==
    \A day_idx \in 0..(WeekDays - 1) :
        Get(commit_days', labels[day_idx + 1])
            = Get(commit_days, labels[day_idx + 1])
                + PositiveSum(Repo(pages, order, repositories[repo_i]).commit_activity,
                              day_idx)

\* C18: the fold of a commit-activity week adds a positive count at index i
\* of "days" to the weekday that index stands for in the API's convention:
\* index 0 to Sunday, index 1 to Monday, ..., index 6 to Saturday.
C18_CreditsApiWeekday ==
    [][(pc = "get_commit_activity" /\ last_request'.outcome = "json")
          => Credits(ApiDay)]_vars

\* The fold as the code does it: index 0 to Monday, ..., index 6 to Sunday
C18_CreditsCalendarWeekday ==
    [][(pc = "get_commit_activity" /\ last_request'.outcome = "json")
          => Credits(day_abbr)]_vars

\* C19: when a response carries only one of the two rate-limit headers (the
\* other absent or no number), the field of the other header keeps its
\* previous value; when both are absent, remaining becomes 0 and the reset
\* time the current time.
C19_MissingHeaderKeepsField ==
    [][ResponseReceived
          => LET headers == last_request'.headers
             IN  /\ (Carries(headers, REMAINING) /\ ~Carries(headers, RESET))
                       => rate_limit_reset' = rate_limit_reset
                 /\ (Carries(headers, RESET) /\ ~Carries(headers, REMAINING))
                       => rate_limit_remaining' = rate_limit_remaining
                 /\ DOMAIN headers = {}
                       => /\ rate_limit_remaining' = Some(0)
                          /\ rate_limit_reset' = Some(now')]_vars

\* What the code does with an absent header: the field becomes 0
C19_MissingHeaderIsZero ==
    [][(ResponseReceived /\ last_request'.outcome # "raise")
          => /\ REMAINING \notin DOMAIN last_request'.headers
                   => rate_limit_remaining' = Some(0)
             /\ RESET \notin DOMAIN last_request'.headers
                   => rate_limit_reset' = Some(0)]_vars

\* C20: updating the rate state from the headers of a response never
\* raises: whatever the header values, _make_request returns the parsed
\* body or the failure value.
C20_HeaderUpdateNeverRaises == last_request.outcome \in {"json", "none"}

-----------------------------------------------------------------------------
(* The crawl as a whole *)

\* C21: get_user_repos issues at most a fixed number of page requests:
\* against a source that has a full page for every page number it stops
\* once the cap is exceeded.
C21_PageRequestsCapped == endless => page_requests <= PageCap

\* C22: within one analysis the requests are issued one at a time, in this
\* order: the profile, the repository pages 1, 2, 3, ..., then for every
\* repository in paginator order its languages and then its commit
\* activity, the requests of one repository before those of the next.
C22_RequestOrder ==
    [][last_request'.endpoint # "none"
          => /\ gets' = gets + 1
             /\ CASE last_request.endpoint = "none" ->
                        last_request'.endpoint = "users"
                  [] last_request.endpoint = "users" ->
                        last_request'.endpoint = "repos" /\ last_request'.arg = 1
                  [] last_request.endpoint = "repos" ->
                        \/ /\ last_request'.endpoint = "repos"
                           /\ last_request'.arg = last_request.arg + 1
                        \/ /\ last_request'.endpoint = "languages"
                           /\ last_request'.arg = repositories[1]
                  [] last_request.endpoint = "languages" ->
                        /\ last_request'.endpoint = "commit_activity"
                        /\ last_request'.arg = last_request.arg
                  [] last_request.endpoint = "commit_activity" ->
                        /\ last_request'.endpoint = "languages"
                        /\ Encountered(last_request.arg) < Len(repositories)
                        /\ last_request'.arg
                              = repositories[Encountered(last_request.arg) + 1]]_vars

\* The languages request of the second repository, after two page requests
C22_Witness ==
    /\ last_request.endpoint = "languages"
    /\ page_requests >= 2
    /\ Len(repositories) >= 2
    /\ last_request.arg = repositories[2]
    /\ gets = page_requests + 4

\* C23: _make_request does not sleep before its GET when
\* rate_limit_remaining is unknown, or is >= 5, or when rate_limit_reset is
\* not in the future, for instance with remaining 0 and a reset time that
\* has passed.
C23_NoWaitOtherwise ==
    [][(/\ gets' = gets + 1
        /\ \/ rate_limit_remaining = None
           \/ rate_limit_remaining[1] >= LowWater
           \/ (rate_limit_reset # None /\ rate_limit_reset[1] <= now))
          => now' = now]_vars

\* A request made with remaining 0 and a reset time in the past, at the time
\* of the request before it (requests.get raised, the rate state is the one
\* before the call)
C23_Witness ==
    /\ last_request.endpoint = "repos"
    /\ last_request.status_code = 0
    /\ rate_limit_remaining = Some(0)
    /\ rate_limit_reset # None
    /\ rate_limit_reset[1] < now
    /\ now = StartTime

\* The page requests that fail, as far as the crawl so far tells: the last
\* one, or one that was not made yet, or none
FailurePatterns ==
    IF last_request.outcome = "none" THEN {last_request.arg}
    ELSE {0} \cup ((last_request.arg + 1)..(Len(pages) + 1))

\* C24: the terminal version and the dashboard version of get_user_repos
\* return the same repository sequence for every page source and every
\* failure pattern.
C24_SameSequence ==
    ReposReturned =>
        \A fail \in FailurePatterns :
            /\ repositories = Crawl("terminal", pages, fail, 1, <<>>)
            /\ repositories = Crawl("dashboard", pages, fail, 1, <<>>)

\* No page with entries follows a page of fewer than 100 entries
ShortPageIsLast(pgs) ==
    \A p \in 2..Len(pgs) : (pgs[p].list /\ pgs[p].n > 0) => IsFull(pgs[p - 1])

\* C24 for the page sources whose short page is the last page with entries
C24_SameSequenceShortPageLast ==
    (ReposReturned /\ ShortPageIsLast(pages)) =>
        \A fail \in FailurePatterns :
            /\ repositories = Crawl("terminal", pages, fail, 1, <<>>)
            /\ repositories = Crawl("dashboard", pages, fail, 1, <<>>)

\* What get_user_repos returned is what Crawl computes for the version
\* that ran
C24_CrawlIsGetUserRepos ==
    ReposReturned =>
        \A fail \in FailurePatterns :
            repositories = Crawl(impl, pages, fail, 1, <<>>)

-----------------------------------------------------------------------------
(* The Pokemon programs *)

\* The step calls requests.get at least a second after the call before it
SpacedBySecond ==
    (calls' = calls + 1 /\ last_get # None) => last_get'[1] - last_get[1] >= Second

\* C25: for one PokemonAPI, two consecutive HTTP requests of _make_request
\* are at least 1 second apart, whatever the mix of 200, other statuses
\* and transport failures.
C25_RequestsSpacedBySecond == [][SpacedBySecond]_vars

\* C25 for the requests that follow a request that was answered
C25_SpacedAfterResponse == [][status # 0 => SpacedBySecond]_vars

\* C26: for one PokemonListFetcher, with wait_if_needed called before each
\* request, two consecutive HTTP requests of get_all_pokemon are at least
\* 1 second apart, whatever the requests' durations.
C26_FetchesSpacedBySecond ==
    [][(fetch_pc = "loop" /\ calls > 0) => SpacedBySecond]_vars

\* What wait_if_needed does keep apart: the times it is called at
C26_WaitsSpacedBySecond ==
    [][(calls' = calls + 1 /\ calls > 0)
          => last_get'[1] - last_request_time >= Second]_vars

\* The results of pages 1..n of the list, in page order
RECURSIVE ConcatResults(_, _)
ConcatResults(dex, n) ==
    IF n = 0 THEN <<>> ELSE ConcatResults(dex, n - 1) \o Results(dex, n)

\* C27: get_all_pokemon follows the 'next' link of every 200 page until
\* there is none and returns the results of all pages in order; when a page
\* request is answered with another status or fails in transport, it stops
\* without raising and returns the results of the pages before.
C27_ReturnsListOrPrefix ==
    /\ fetch_pc = "returned"
          => /\ status = 200
                   => /\ calls = Len(pokedex)
                      /\ all_pokemon = ConcatResults(pokedex, Len(pokedex))
             /\ status # 200
                   => all_pokemon = ConcatResults(pokedex, calls - 1)
    /\ fetch_pc = "loop"
          => /\ url # None
             /\ url[1] = calls + 1
             /\ calls > 0 => status = 200

\* The request for the third page failed after two pages with results
C27_Witness ==
    /\ fetch_pc = "returned"
    /\ status # 200
    /\ calls = 3
    /\ Len(all_pokemon) >= 2
    /\ pokedex[1] > 0
    /\ pokedex[2] > 0

\* The complete list of three pages
C27_CompleteList ==
    /\ fetch_pc = "returned"
    /\ status = 200
    /\ calls = 3
    /\ Len(all_pokemon) >= 3

====
